---- MODULE Spec2Model ----
(***************************************************************************)
(* GUI Notator (src/main.py): the tabbed note editor's document set, the   *)
(* haiku-gated deletion flow, the countdown timer and the session load,    *)
(* as one state machine.  One action per event handler; every handler runs *)
(* to completion (Tk's single event loop).                                 *)
(***************************************************************************)
EXTENDS Integers, Sequences, FiniteSets, TLC

\* ---------------------------------------------------------------- bounds
MaxTabs == 2
MaxAfter == 2
MaxMinutes == 1
MaxHaikuLines == 4
MaxItems == 2
MaxLen == 2

\* ------------------------------------------------------ program constants
\* set_timer: self.remaining = minutes * 60
SecondsPerMinute == 60
\* HaikuFrame._validate: the three word-count ranges
Line1Min == 3
Line1Max == 5
Line2Min == 4
Line2Max == 7
Line3Min == 3
Line3Max == 5
\* _load_haiku_lines: range(0, len(lines), 3)
GroupSize == 3

\* ------------------------------------------------------------- universes
\* Note files that may exist in DATA_DIR.
Names == {"a.md", "b.md"}
\* NoteText.filename = None
None == "None"
\* GUINotator.pending_delete before start_delete first assigns it.
Unset == [set |-> FALSE, tab |-> 0, filename |-> None]

\* A line typed into an entry: a sequence of characters, "w" a letter and
\* " " a blank.  LineOf(k) is k one-letter words separated by one blank.
LineOf(k) == [i \in 1..(IF k = 0 THEN 0 ELSE 2 * k - 1) |-> IF i % 2 = 1 THEN "w" ELSE " "]
WordChoices == {0, 4, 6}
LineInputs == {LineOf(k) : k \in WordChoices}

\* Lines with blanks in other places: Spaced(k) is k one-letter words each
\* between two blanks, Long(k) is k two-letter words separated by one blank.
Spaced(k) == [i \in 1..(3 * k) |-> IF i % 3 = 2 THEN "w" ELSE " "]
Long(k) == [i \in 1..(IF k = 0 THEN 0 ELSE 3 * k - 1) |-> IF i % 3 = 0 THEN " " ELSE "w"]
GateInputs ==
    {LineOf(0), <<" ">>, LineOf(2), Spaced(3), LineOf(4), Long(5), Spaced(6), LineOf(7), Long(8)}

\* Contents of data/tabs_state.json.
JsonItems == {[t |-> "str", v |-> n] : n \in Names} \cup {[t |-> "num", v |-> "1"]}
SeqsUpTo(S, n) == UNION {[1..k -> S] : k \in 0..n}
JsonArrays == {[t |-> "arr", items |-> s] : s \in SeqsUpTo(JsonItems, MaxItems)}
JsonObjects == {[t |-> "obj", items |-> s] : s \in SeqsUpTo({[t |-> "str", v |-> n] : n \in Names}, 1)}
JsonScalars == {[t |-> "num", items |-> <<>>], [t |-> "null", items |-> <<>>]}
MissingFile == [kind |-> "missing", json |-> [t |-> "none", items |-> <<>>]]
GarbageFile == [kind |-> "garbage", json |-> [t |-> "none", items |-> <<>>]]
StateFiles ==
    {MissingFile, GarbageFile}
    \cup {[kind |-> "json", json |-> j] : j \in JsonArrays \cup JsonObjects \cup JsonScalars}
\* json.dump of a list of filenames.
json_dump(files) ==
    [kind |-> "json",
     json |-> [t |-> "arr", items |-> [i \in DOMAIN files |-> [t |-> "str", v |-> files[i]]]]]
\* A state file as on_close writes it: an array of filenames.
IsStringArray(j) == j.t = "arr" /\ \A i \in DOMAIN j.items : j.items[i].t = "str"
WellFormed(sf) == sf.kind = "json" /\ IsStringArray(sf.json)

\* Keys pressed in a NoteText: a letter, and one of the keys _block_keys names.
Keys == {"y", "BackSpace"}
\* The newline a Tk text widget always holds after its last character.
NL == "\n"

\* Contents of data/haiku.txt: absent, or n non-blank lines numbered 1..n.
NoHaikuFile == [exists |-> FALSE, n |-> 0]
HaikuFile(k) == [exists |-> TRUE, n |-> k]
HaikuFiles == {NoHaikuFile} \cup {HaikuFile(k) : k \in 0..MaxHaikuLines}

VARIABLES
    phase,          \* "boot" before GUINotator() runs, then "running" or "crashed"
    stateFile,      \* data/tabs_state.json
    haikuFile,      \* data/haiku.txt
    disk,           \* the note files present in DATA_DIR
    contents,       \* the text of each note file (<<>> for a file that is absent)
    tabs,           \* notebook.tabs(): the NoteText widgets in tab order, see Widget
    events,         \* the <<Modified>> events queued and not yet dispatched, each the
                    \* tab index of the NoteText it was generated for
    hemingway,      \* GUINotator.hemingway
    sel,            \* index of notebook.select() in tabs, 0 when there is no tab
    pending_delete, \* GUINotator.pending_delete: the NoteText it refers to, as the
                    \* index of its tab (tab), or with tab = 0 and its filename once
                    \* the widget has left the notebook; Unset before the first assignment
    haiku_lines,    \* GUINotator.haiku_lines
    haiku_index,    \* GUINotator.haiku_index (0-based)
    frame,          \* HaikuFrame: "hidden", "entry" (show) or "result" (show_result)
    message,        \* HaikuFrame.message text
    e,              \* the texts of e1, e2, e3
    ok,             \* the Slet button is NORMAL
    status,         \* the status label text
    remaining,      \* GUINotator.remaining
    timer_id,       \* GUINotator.timer_id, 0 for None
    after,          \* the after() callbacks scheduled and not yet run or cancelled
    timer_label,    \* timer_label text: <<>> for "", else <<mins, sec>>
    emitted,        \* history: the values of remaining at which "Timer finished" was shown
    run,            \* history: the ticks since the last set_timer
    op,             \* history: the handler that ran last
    raised          \* history: the exception the last handler ended with, or "none"

vars == <<phase, stateFile, haikuFile, disk, contents, tabs, events, hemingway, sel,
          pending_delete, haiku_lines, haiku_index, frame, message, e, ok, status,
          remaining, timer_id, after, timer_label, emitted, run, op, raised>>

fileVars == <<stateFile, haikuFile>>
nbVars == <<tabs, sel, events>>
bankVars == <<haiku_lines, haiku_index>>
frameVars == <<frame, message, e, ok>>
timerVars == <<remaining, timer_id, after, timer_label, emitted, run>>

\* ---------------------------------------------------------------- helpers
Max(a, b) == IF a >= b THEN a ELSE b
Min(a, b) == IF a <= b THEN a ELSE b

\* str.split() and len(): the number of maximal runs of non-blank characters.
RECURSIVE WordCount(_)
WordCount(line) ==
    IF Len(line) = 0 THEN 0
    ELSE LET rest == Tail(line)
             startsWord == Head(line) # " " /\ (Len(rest) = 0 \/ Head(rest) = " ")
         IN  (IF startsWord THEN 1 ELSE 0) + WordCount(rest)

\* _validate with the upper bounds exclusive.
valid_exclusive(lines) ==
    /\ Line1Min <= WordCount(lines[1]) /\ WordCount(lines[1]) < Line1Max
    /\ Line2Min <= WordCount(lines[2]) /\ WordCount(lines[2]) < Line2Max
    /\ Line3Min <= WordCount(lines[3]) /\ WordCount(lines[3]) < Line3Max

\* HaikuFrame._validate: the value the Slet button's state is set from.
valid(lines) ==
    /\ Line1Min <= WordCount(lines[1]) /\ WordCount(lines[1]) <= Line1Max
    /\ Line2Min <= WordCount(lines[2]) /\ WordCount(lines[2]) <= Line2Max
    /\ Line3Min <= WordCount(lines[3]) /\ WordCount(lines[3]) <= Line3Max

\* A NoteText as new_tab creates it.  text is what the widget holds before the
\* newline Tk keeps at its end; modified is Tk's modified flag, set by the
\* insert; star is the "*" at the end of the widget's tab label.  History:
\* read is what was inserted from a file, loaded whether a file was named,
\* edited whether a key has changed the text since it was loaded or saved.
Widget(fn, content) ==
    [filename |-> fn, text |-> content, modified |-> content # <<>>, star |-> FALSE,
     hemingway |-> FALSE, read |-> content, loaded |-> fn # None, edited |-> FALSE]

\* new_tab on a notebook N = [tabs, sel, events]: insert the content (which
\* queues <<Modified>> when there is any), append the tab, then select it.
NewTab(N, fn, content) ==
    [tabs |-> Append(N.tabs, Widget(fn, content)),
     sel |-> Len(N.tabs) + 1,
     events |-> IF content # <<>> THEN Append(N.events, Len(N.tabs) + 1) ELSE N.events]

\* close_tab: forget the selected tab; the notebook then selects the next tab,
\* or the previous one when the last tab was closed.
CloseTab(N) ==
    IF N.sel = 0 THEN N
    ELSE LET t == [i \in 1..(Len(N.tabs) - 1) |->
                      IF i < N.sel THEN N.tabs[i] ELSE N.tabs[i + 1]]
         IN  [tabs |-> t, sel |-> IF N.sel <= Len(t) THEN N.sel ELSE Len(t),
              events |-> N.events]

\* The reference p after close_tab on N: the same widget, wherever it now is.
AfterClose(p, N) ==
    IF ~p.set \/ p.tab = 0 \/ N.sel = 0 \/ p.tab < N.sel THEN p
    ELSE IF p.tab = N.sel THEN [set |-> TRUE, tab |-> 0, filename |-> N.tabs[p.tab].filename]
    ELSE [p EXCEPT !.tab = p.tab - 1]

\* text.filename of the widget pending_delete refers to.
FilenameOf(p, t) == IF p.tab > 0 THEN t[p.tab].filename ELSE p.filename

Notebook == [tabs |-> tabs, sel |-> sel, events |-> events]
SetNotebook(N) == tabs' = N.tabs /\ sel' = N.sel /\ events' = N.events

\* _load_haiku_lines
load_haiku_lines(hf) ==
    IF ~hf.exists THEN <<>>
    ELSE [g \in 1..((hf.n + GroupSize - 1) \div GroupSize) |->
             [k \in 1..(Min(GroupSize * g, hf.n) - GroupSize * (g - 1)) |-> GroupSize * (g - 1) + k]]

\* _load_tabs, the loop over the loaded value: one new_tab per listed file that
\* exists; os.path.join raises TypeError on an item that is not a string.
RECURSIVE LoadLoop(_, _, _, _)
LoadLoop(items, N, dsk, cont) ==
    IF Len(items) = 0 THEN [nb |-> N, raised |-> "none"]
    ELSE LET it == Head(items)
         IN  IF it.t # "str" THEN [nb |-> N, raised |-> "TypeError"]
             ELSE IF it.v \in dsk
                  THEN LoadLoop(Tail(items), NewTab(N, it.v, cont[it.v]), dsk, cont)
             ELSE LoadLoop(Tail(items), N, dsk, cont)

\* _load_tabs: the value of files, then the loop, then the blank tab.
load_tabs(sf, dsk, cont) ==
    LET empty == [tabs |-> <<>>, sel |-> 0, events |-> <<>>]
        loaded == IF sf.kind = "json" THEN sf.json ELSE [t |-> "arr", items |-> <<>>]
        r == IF loaded.t \in {"arr", "obj"} THEN LoadLoop(loaded.items, empty, dsk, cont)
             ELSE [nb |-> empty, raised |-> "TypeError"]
    IN  IF r.raised # "none" THEN r
        ELSE IF Len(r.nb.tabs) = 0 THEN [nb |-> NewTab(r.nb, None, <<>>), raised |-> "none"]
        ELSE r

\* ------------------------------------------------------------------- Init
NoRun == [clean |-> FALSE, total |-> 0, ticks |-> 0, finished |-> 0]
NoMessage == [kind |-> "none", text |-> <<>>]
EmptyEntries == <<<<>>, <<>>, <<>>>>

\* The state of a process that has not run GUINotator() yet.
NotStarted ==
    /\ phase = "boot"
    /\ tabs = <<>>
    /\ sel = 0
    /\ events = <<>>
    /\ hemingway = FALSE
    /\ pending_delete = Unset
    /\ haiku_lines = <<>>
    /\ haiku_index = 0
    /\ frame = "hidden"
    /\ message = NoMessage
    /\ e = EmptyEntries
    /\ ok = FALSE
    /\ status = ""
    /\ remaining = 0
    /\ timer_id = 0
    /\ after = {}
    /\ timer_label = <<>>
    /\ emitted = {}
    /\ run = NoRun

\* Before the first launch: the files of DATA_DIR, the note files that exist
\* each holding one of texts.
InitOn(stateFiles, disks, haikuFiles, texts) ==
    /\ stateFile \in stateFiles
    /\ haikuFile \in haikuFiles
    /\ disk \in disks
    /\ \E f \in [Names -> texts] : contents = [n \in Names |-> IF n \in disk THEN f[n] ELSE <<>>]
    /\ NotStarted
    /\ op = "none"
    /\ raised = "none"

\* GUINotator.__init__: the widgets, the haiku bank, the timer fields, the tabs.
startup ==
    /\ phase = "boot"
    /\ LET r == load_tabs(stateFile, disk, contents)
       IN  /\ SetNotebook(r.nb)
           /\ raised' = r.raised
           /\ phase' = IF r.raised = "none" THEN "running" ELSE "crashed"
    /\ haiku_lines' = load_haiku_lines(haikuFile)
    /\ haiku_index' = 0
    /\ timer_id' = 0
    /\ remaining' = 0
    /\ hemingway' = FALSE
    /\ op' = "startup"
    /\ UNCHANGED <<fileVars, disk, contents, pending_delete, frameVars, status, after,
                   timer_label, emitted, run>>

\* ------------------------------------------------------- tabs and files
Running == phase = "running"
\* The event loop takes the next input event: the <<Modified>> events the last
\* handler queued have been dispatched (Tcl serves its own queue before it
\* fetches further events from the display).
Ready == Running /\ events = <<>>

\* Ctrl-n: new_tab() with no filename.
new_tab ==
    /\ Ready
    /\ Len(tabs) < MaxTabs
    /\ SetNotebook(NewTab(Notebook, None, <<>>))
    /\ op' = "new_tab"
    /\ raised' = "none"
    /\ UNCHANGED <<phase, hemingway, fileVars, disk, contents, pending_delete, bankVars, frameVars, status, timerVars>>

\* Ctrl-o: open_file, the dialog returning an existing file of DATA_DIR, or
\* nothing (fn = None) when it is dismissed.
open_file(fn) ==
    /\ Ready
    /\ Len(tabs) < MaxTabs
    /\ fn \in disk \cup {None}
    /\ IF fn = None THEN UNCHANGED nbVars
       ELSE SetNotebook(NewTab(Notebook, fn, contents[fn]))
    /\ op' = "open_file"
    /\ raised' = "none"
    /\ UNCHANGED <<phase, hemingway, fileVars, disk, contents, pending_delete, bankVars, frameVars, status, timerVars>>

\* Ctrl-w: close_tab.
close_tab ==
    /\ Ready
    /\ SetNotebook(CloseTab(Notebook))
    /\ pending_delete' = AfterClose(pending_delete, Notebook)
    /\ op' = "close_tab"
    /\ raised' = "none"
    /\ UNCHANGED <<phase, hemingway, fileVars, disk, contents, bankVars, frameVars, status, timerVars>>

\* (idx + d) % len(tabs) on the 0-based index, as a 1-based index.
Step(d) == ((sel - 1 + d + Len(tabs)) % Len(tabs)) + 1

\* Ctrl-comma: prev_tab.
prev_tab ==
    /\ Ready
    /\ sel' = IF Len(tabs) = 0 THEN sel ELSE Step(-1)
    /\ op' = "prev_tab"
    /\ raised' = "none"
    /\ UNCHANGED <<phase, hemingway, fileVars, disk, contents, tabs, events, pending_delete, bankVars, frameVars, status, timerVars>>

\* Ctrl-period: next_tab.
next_tab ==
    /\ Ready
    /\ sel' = IF Len(tabs) = 0 THEN sel ELSE Step(1)
    /\ op' = "next_tab"
    /\ raised' = "none"
    /\ UNCHANGED <<phase, hemingway, fileVars, disk, contents, tabs, events, pending_delete, bankVars, frameVars, status, timerVars>>

\* The event loop dispatches the oldest queued <<Modified>> event, generated
\* for the NoteText of tab i: _on_modified(text).  It marks the label of the
\* SELECTED tab, then clears the widget's modified flag, and clearing a set
\* flag queues <<Modified>> once more.
on_modified ==
    /\ Running
    /\ events # <<>>
    /\ LET i == Head(events)
           m == tabs[i].modified
       IN  IF sel = 0
           THEN /\ raised' = "TclError"
                /\ events' = Tail(events)
                /\ tabs' = tabs
           ELSE /\ tabs' = [k \in DOMAIN tabs |->
                              [tabs[k] EXCEPT !.star = IF k = sel THEN m ELSE @,
                                              !.modified = IF k = i THEN FALSE ELSE @]]
                /\ events' = IF m THEN Append(Tail(events), i) ELSE Tail(events)
                /\ raised' = "none"
    /\ op' = "on_modified"
    /\ UNCHANGED <<phase, hemingway, fileVars, disk, contents, sel, pending_delete, bankVars,
                   frameVars, status, timerVars>>

\* NoteText._block_keys: "break" stops the key before the Text class binding.
block_keys(w, k) == w.hemingway /\ k \in {"BackSpace", "Delete", "Left"}

\* A key pressed in the selected NoteText, the insertion cursor at the end:
\* unless _block_keys breaks, a letter is inserted and BackSpace deletes the
\* character before the cursor.  A change sets the modified flag, and setting
\* a clear flag queues <<Modified>>.
key(k) ==
    /\ Ready
    /\ sel > 0
    /\ k = "y" => Len(tabs[sel].text) < MaxLen
    /\ LET w == tabs[sel]
           t == IF block_keys(w, k) THEN w.text
                ELSE IF k = "y" THEN Append(w.text, "y")
                ELSE IF Len(w.text) = 0 THEN w.text
                ELSE SubSeq(w.text, 1, Len(w.text) - 1)
           changed == t # w.text
       IN  /\ tabs' = [tabs EXCEPT ![sel] =
                          [w EXCEPT !.text = t, !.modified = @ \/ changed, !.edited = @ \/ changed]]
           /\ events' = IF changed /\ ~w.modified THEN Append(events, sel) ELSE events
    /\ op' = "key"
    /\ raised' = "none"
    /\ UNCHANGED <<phase, hemingway, fileVars, disk, contents, sel, pending_delete, bankVars, frameVars, status, timerVars>>

\* text.get("1.0", tk.END): the text and the newline after it.
get_all(w) == w.text \o <<NL>>

\* save from "path = ..." on, the selected widget named fn: write the file,
\* put the plain title on the selected tab, clear the modified flag (which
\* queues <<Modified>> when it was set).
WriteCurrent(fn) ==
    LET w == tabs[sel]
    IN  /\ contents' = [contents EXCEPT ![fn] = get_all(w)]
        /\ disk' = disk \cup {fn}
        /\ status' = "Saved"
        /\ tabs' = [tabs EXCEPT ![sel] =
                       [w EXCEPT !.filename = fn, !.star = FALSE, !.modified = FALSE,
                                 !.read = get_all(w), !.loaded = TRUE, !.edited = FALSE]]
        /\ events' = IF w.modified THEN Append(events, sel) ELSE events
        /\ raised' = "none"

\* save_as with the dialog returning fn (None when dismissed), then save.
SaveAs(fn) ==
    IF sel = 0
    THEN /\ raised' = "AttributeError"
         /\ UNCHANGED <<disk, contents, tabs, events, status>>
    ELSE IF fn = None
    THEN /\ raised' = "none"
         /\ UNCHANGED <<disk, contents, tabs, events, status>>
    ELSE WriteCurrent(fn)

\* Ctrl-S: save_as.
save_as(fn) ==
    /\ Ready
    /\ sel > 0 => Len(tabs[sel].text) < MaxLen
    /\ SaveAs(fn)
    /\ op' = "save_as"
    /\ UNCHANGED <<phase, hemingway, fileVars, sel, pending_delete, bankVars, frameVars, timerVars>>

\* Ctrl-s: save; an untitled widget goes through save_as, whose dialog
\* returns fn.
save(fn) ==
    /\ Ready
    /\ sel > 0 => Len(tabs[sel].text) < MaxLen
    /\ IF sel > 0 /\ tabs[sel].filename # None
       THEN fn = None /\ WriteCurrent(tabs[sel].filename)
       ELSE SaveAs(fn)
    /\ op' = "save"
    /\ UNCHANGED <<phase, hemingway, fileVars, sel, pending_delete, bankVars, frameVars, timerVars>>

\* The loop of on_close without the test of text.filename.
session_files_unfiltered(t) == [i \in DOMAIN t |-> t[i].filename]

\* on_close, the loop: the filenames of the tabs that have one, in tab order.
RECURSIVE session_files(_)
session_files(t) ==
    IF Len(t) = 0 THEN <<>>
    ELSE IF Head(t).filename # None
         THEN <<Head(t).filename>> \o session_files(Tail(t))
         ELSE session_files(Tail(t))

\* WM_DELETE_WINDOW: on_close writes the state file and destroys the window;
\* the process ends, and with it every field.  The notebook is left as it was
\* at the end.
on_close ==
    /\ Ready
    /\ stateFile' = json_dump(session_files(tabs))
    /\ phase' = "closed"
    /\ hemingway' = FALSE
    /\ pending_delete' = Unset
    /\ haiku_lines' = <<>>
    /\ haiku_index' = 0
    /\ frame' = "hidden"
    /\ message' = NoMessage
    /\ e' = EmptyEntries
    /\ ok' = FALSE
    /\ status' = ""
    /\ remaining' = 0
    /\ timer_id' = 0
    /\ after' = {}
    /\ timer_label' = <<>>
    /\ emitted' = {}
    /\ run' = NoRun
    /\ op' = "on_close"
    /\ raised' = "none"
    /\ UNCHANGED <<haikuFile, disk, contents, nbVars>>

\* Documents: opened or restored from the session, typed into, saved.
DocInit ==
    InitOn({MissingFile, json_dump(<<"a.md">>)}, {{"a.md"}}, {NoHaikuFile}, {<<>>, <<"x">>})

DocNext ==
    \/ startup
    \/ new_tab
    \/ \E fn \in Names \cup {None} : open_file(fn)
    \/ next_tab
    \/ \E k \in Keys : key(k)
    \/ \E fn \in Names \cup {None} : save(fn)
    \/ \E fn \in Names \cup {None} : save_as(fn)
    \/ on_modified

DocSpec == DocInit /\ [][DocNext]_vars

\* Ctrl-g: toggle_hemingway.  The application's flag is flipped before the
\* current widget is looked up; with no tab the lookup yields a widget without
\* enable_hemingway.
toggle_hemingway ==
    /\ Ready
    /\ hemingway' = ~hemingway
    /\ IF sel = 0
       THEN /\ raised' = "AttributeError"
            /\ UNCHANGED <<tabs, status>>
       ELSE /\ tabs' = [tabs EXCEPT ![sel].hemingway = ~hemingway]
            /\ status' = IF ~hemingway THEN "Hemingway mode on" ELSE "Hemingway mode off"
            /\ raised' = "none"
    /\ op' = "toggle_hemingway"
    /\ UNCHANGED <<phase, fileVars, disk, contents, sel, events, pending_delete, bankVars, frameVars, timerVars>>

\* The tabs and the Hemingway switch.
HemInit == InitOn({MissingFile}, {Names}, {NoHaikuFile}, {<<"x">>})

HemNext ==
    \/ startup
    \/ new_tab
    \/ \E fn \in Names \cup {None} : open_file(fn)
    \/ close_tab
    \/ prev_tab
    \/ next_tab
    \/ toggle_hemingway
    \/ on_modified

HemSpec == HemInit /\ [][HemNext]_vars

LoadInit == InitOn(StateFiles, SUBSET Names, {NoHaikuFile}, {<<"x">>})
LoadNext == startup \/ on_modified
LoadSpec == LoadInit /\ [][LoadNext]_vars

\* ------------------------------------------------------- the haiku gate
\* HaikuFrame.show
show(intro) ==
    /\ message' = [kind |-> "prompt", text |-> intro]
    /\ e' = EmptyEntries
    /\ ok' = FALSE
    /\ frame' = "entry"

\* HaikuFrame.show_result
show_result(haiku) ==
    /\ message' = [kind |-> "result", text |-> haiku]
    /\ frame' = "result"

\* start_delete that advances the cursor without the modulo.
start_delete_no_wrap ==
    /\ Ready
    /\ op' = "start_delete"
    /\ UNCHANGED <<phase, hemingway, fileVars, disk, contents, nbVars, status, timerVars>>
    /\ IF sel = 0
       THEN /\ raised' = "AttributeError"
            /\ UNCHANGED <<pending_delete, bankVars, frameVars>>
       ELSE IF tabs[sel].filename = None
       THEN /\ raised' = "none"
            /\ UNCHANGED <<pending_delete, bankVars, frameVars>>
       ELSE /\ pending_delete' = [set |-> TRUE, tab |-> sel, filename |-> None]
            /\ IF haiku_index >= Len(haiku_lines)
               THEN /\ raised' = "IndexError"
                    /\ UNCHANGED <<bankVars, frameVars>>
               ELSE /\ show(haiku_lines[haiku_index + 1])
                    /\ haiku_index' = haiku_index + 1
                    /\ haiku_lines' = haiku_lines
                    /\ raised' = "none"

\* start_delete without the early return on a widget that has no filename.
start_delete_no_filename_check ==
    /\ Ready
    /\ op' = "start_delete"
    /\ UNCHANGED <<phase, hemingway, fileVars, disk, contents, nbVars, status, timerVars>>
    /\ IF sel = 0
       THEN /\ raised' = "AttributeError"
            /\ UNCHANGED <<pending_delete, bankVars, frameVars>>
       ELSE /\ pending_delete' = [set |-> TRUE, tab |-> sel, filename |-> None]
            /\ IF haiku_index >= Len(haiku_lines)
               THEN /\ raised' = "IndexError"
                    /\ UNCHANGED <<bankVars, frameVars>>
               ELSE /\ show(haiku_lines[haiku_index + 1])
                    /\ haiku_index' = (haiku_index + 1) % Max(1, Len(haiku_lines))
                    /\ haiku_lines' = haiku_lines
                    /\ raised' = "none"

\* Ctrl-Delete: start_delete.  With no tab, _current_text returns a widget
\* that is no NoteText, and reading its filename raises.
start_delete ==
    /\ Ready
    /\ op' = "start_delete"
    /\ UNCHANGED <<phase, hemingway, fileVars, disk, contents, nbVars, status, timerVars>>
    /\ IF sel = 0
       THEN /\ raised' = "AttributeError"
            /\ UNCHANGED <<pending_delete, bankVars, frameVars>>
       ELSE IF tabs[sel].filename = None
       THEN /\ raised' = "none"
            /\ UNCHANGED <<pending_delete, bankVars, frameVars>>
       ELSE /\ pending_delete' = [set |-> TRUE, tab |-> sel, filename |-> None]
            /\ IF haiku_index >= Len(haiku_lines)
               THEN /\ raised' = "IndexError"
                    /\ UNCHANGED <<bankVars, frameVars>>
               ELSE /\ show(haiku_lines[haiku_index + 1])
                    /\ haiku_index' = (haiku_index + 1) % Max(1, Len(haiku_lines))
                    /\ haiku_lines' = haiku_lines
                    /\ raised' = "none"

\* The text of entry i changes.  The tk.Entry widgets change their own text
\* (on a key press, on a paste with the mouse); the only handler the program
\* binds to them is _validate on <KeyRelease>, a later event, so the Slet
\* button keeps its state here.
entry_edit(i, line) ==
    /\ Ready
    /\ frame = "entry"
    /\ line # e[i]
    /\ e' = [e EXCEPT ![i] = line]
    /\ op' = "entry_edit"
    /\ raised' = "none"
    /\ UNCHANGED <<phase, hemingway, fileVars, disk, contents, nbVars, pending_delete, bankVars, frame, message, ok, status, timerVars>>

\* <KeyRelease> in an entry: _validate.
validate ==
    /\ Ready
    /\ frame = "entry"
    /\ ok' = valid(e)
    /\ op' = "validate"
    /\ raised' = "none"
    /\ UNCHANGED <<phase, hemingway, fileVars, disk, contents, nbVars, pending_delete, bankVars, frame, message, e, status, timerVars>>

\* _confirm_delete, entered after _submit has hidden the frame.
confirm_delete(haiku) ==
    IF ~pending_delete.set
    THEN /\ raised' = "AttributeError"
         /\ frame' = "hidden"
         /\ UNCHANGED <<disk, contents, nbVars, pending_delete, message, status>>
    ELSE IF FilenameOf(pending_delete, tabs) = None
    THEN /\ raised' = "none"
         /\ frame' = "hidden"
         /\ UNCHANGED <<disk, contents, nbVars, pending_delete, message, status>>
    ELSE IF FilenameOf(pending_delete, tabs) \notin disk
    THEN /\ raised' = "FileNotFoundError"
         /\ frame' = "hidden"
         /\ UNCHANGED <<disk, contents, nbVars, pending_delete, message, status>>
    ELSE /\ disk' = disk \ {FilenameOf(pending_delete, tabs)}
         /\ contents' = [contents EXCEPT ![FilenameOf(pending_delete, tabs)] = <<>>]
         /\ SetNotebook(CloseTab(Notebook))
         /\ pending_delete' = AfterClose(pending_delete, Notebook)
         /\ status' = "File deleted"
         /\ show_result(haiku)
         /\ raised' = "none"

\* A click on Slet while it is NORMAL: _submit reads the entries, hides the
\* frame, then calls _confirm_delete.
submit ==
    /\ Ready
    /\ frame = "entry"
    /\ ok
    /\ confirm_delete(e)
    /\ op' = "submit"
    /\ UNCHANGED <<phase, hemingway, fileVars, bankVars, e, ok, timerVars>>

\* A click on Annuller / Luk: hide.
hide ==
    /\ Ready
    /\ frame # "hidden"
    /\ frame' = "hidden"
    /\ op' = IF frame = "entry" THEN "cancel" ELSE "dismiss"
    /\ raised' = "none"
    /\ UNCHANGED <<phase, hemingway, fileVars, disk, contents, nbVars, pending_delete, bankVars, message, e, ok, status, timerVars>>

\* The gate alone, on a session of one note file, with lines of every shape.
GateInit == InitOn({json_dump(<<"a.md">>)}, {Names}, {HaikuFile(MaxHaikuLines)}, {<<"x">>})

GateNext ==
    \/ startup
    \/ on_modified
    \/ start_delete
    \/ \E i \in 1..3, line \in GateInputs : entry_edit(i, line)
    \/ validate
    \/ hide

GateSpec == GateInit /\ [][GateNext]_vars

\* One line that suits each of the three entries.
SessionInputs == {LineOf(Line2Min)}

\* Sessions: tabs made, saved under a name, closed and deleted, then the
\* window closed.  The open dialog offers the one file there is at the start,
\* the save dialog is answered with the other name.
SessionInit == InitOn({MissingFile}, {{"a.md"}}, {HaikuFile(GroupSize)}, {<<"x">>})

SessionNext ==
    \/ startup
    \/ new_tab
    \/ \E fn \in {"a.md", None} : open_file(fn)
    \/ \E fn \in {"b.md", None} : save_as(fn)
    \/ close_tab
    \/ start_delete
    \/ \E i \in 1..3, line \in SessionInputs : entry_edit(i, line)
    \/ validate
    \/ submit
    \/ hide
    \/ on_modified
    \/ on_close

SessionSpec == SessionInit /\ [][SessionNext]_vars

Init == InitOn({MissingFile}, {Names}, {HaikuFile(0), HaikuFile(MaxHaikuLines)}, {<<"x">>})

Next ==
    \/ startup
    \/ new_tab
    \/ \E fn \in Names \cup {None} : open_file(fn)
    \/ close_tab
    \/ prev_tab
    \/ next_tab
    \/ start_delete
    \/ \E i \in 1..3, line \in LineInputs : entry_edit(i, line)
    \/ validate
    \/ submit
    \/ hide
    \/ on_modified

Spec == Init /\ [][Next]_vars

\* ------------------------------------------------------------ the timer
\* The id after() returns: one no scheduled callback has and timer_id does not hold.
FreshAfter(sched, tid) ==
    CHOOSE i \in 1..(MaxAfter + 2) :
        /\ i \notin sched \cup {tid}
        /\ \A j \in 1..(MaxAfter + 2) : j \notin sched \cup {tid} => i <= j

\* divmod(self.remaining, 60) as the label shows it.
Label(r) == <<r \div SecondsPerMinute, r % SecondsPerMinute>>

\* _tick_timer that reschedules itself even after "Timer finished".
tick_timer_no_return(r, sched, tid) ==
    LET id == FreshAfter(sched, tid)
    IN  [remaining |-> IF r <= 0 THEN r ELSE r - 1, timer_label |-> Label(r),
         finished |-> r <= 0, after |-> sched \cup {id}, timer_id |-> id]

\* _tick_timer that stops only below zero.
tick_timer_below_zero(r, sched, tid) ==
    IF r < 0
    THEN [remaining |-> r, timer_label |-> Label(r), finished |-> TRUE,
          after |-> sched, timer_id |-> tid]
    ELSE LET id == FreshAfter(sched, tid)
         IN  [remaining |-> r - 1, timer_label |-> Label(r), finished |-> FALSE,
              after |-> sched \cup {id}, timer_id |-> id]

\* _tick_timer with self.remaining = r, the callbacks sched still scheduled
\* and self.timer_id = tid: the fields it leaves.
tick_timer(r, sched, tid) ==
    IF r <= 0
    THEN [remaining |-> r, timer_label |-> Label(r), finished |-> TRUE,
          after |-> sched, timer_id |-> tid]
    ELSE LET id == FreshAfter(sched, tid)
         IN  [remaining |-> r - 1, timer_label |-> Label(r), finished |-> FALSE,
              after |-> sched \cup {id}, timer_id |-> id]

SetTimer(t) ==
    /\ remaining' = t.remaining
    /\ timer_label' = t.timer_label
    /\ after' = t.after
    /\ timer_id' = t.timer_id
    /\ status' = IF t.finished THEN "Timer finished" ELSE status
    /\ emitted' = IF t.finished THEN emitted \cup {t.remaining} ELSE emitted

\* Ctrl-t: set_timer, the dialog returning minutes, or nothing (minutes = 0).
set_timer(minutes) ==
    /\ Ready
    /\ Cardinality(after) < MaxAfter
    /\ op' = "set_timer"
    /\ raised' = "none"
    /\ IF minutes = 0
       THEN UNCHANGED <<timerVars, status>>
       ELSE /\ SetTimer(tick_timer(minutes * SecondsPerMinute, after, timer_id))
            /\ run' = IF after = {}
                      THEN [clean |-> TRUE, total |-> minutes * SecondsPerMinute,
                            ticks |-> 0, finished |-> 0]
                      ELSE NoRun
    /\ UNCHANGED <<phase, hemingway, fileVars, disk, contents, nbVars, pending_delete, bankVars, frameVars>>

\* The event loop runs the scheduled callback id: _tick_timer.
after_tick(id) ==
    /\ Ready
    /\ id \in after
    /\ LET t == tick_timer(remaining, after \ {id}, timer_id)
       IN  /\ SetTimer(t)
           /\ run' = IF run.clean
                     THEN [run EXCEPT !.ticks = @ + 1,
                                      !.finished = @ + (IF t.finished THEN 1 ELSE 0)]
                     ELSE run
    /\ op' = "after_tick"
    /\ raised' = "none"
    /\ UNCHANGED <<phase, hemingway, fileVars, disk, contents, nbVars, pending_delete, bankVars, frameVars>>

\* Ctrl-r: reset_timer.
reset_timer ==
    /\ Ready
    /\ IF timer_id # 0
       THEN after' = after \ {timer_id} /\ timer_id' = 0
       ELSE UNCHANGED <<after, timer_id>>
    /\ timer_label' = <<>>
    /\ status' = "Timer reset"
    /\ run' = NoRun
    /\ op' = "reset_timer"
    /\ raised' = "none"
    /\ UNCHANGED <<phase, hemingway, fileVars, disk, contents, nbVars, pending_delete, bankVars, frameVars, remaining, emitted>>

TimerInit == InitOn({MissingFile}, {Names}, {NoHaikuFile}, {<<"x">>})

TimerNext ==
    \/ startup
    \/ \E minutes \in 0..MaxMinutes : set_timer(minutes)
    \/ \E id \in after : after_tick(id)
    \/ reset_timer

TimerSpec == TimerInit /\ [][TimerNext]_vars

\* ============================================================== claims
\* The specification's gate states, read off the frame.
Idle == frame = "hidden"
Collecting == frame = "entry"
Completed == frame = "result"

\* t without its i-th element.
RemoveAt(t, i) == [k \in 1..(Len(t) - 1) |-> IF k < i THEN t[k] ELSE t[k + 1]]

\* A step of _submit that deleted (it reached show_result).
SubmitSucceeds == op' = "submit" /\ frame' = "result"

\* C1: a successful submit on a target that is still open removes the backing
\* file of the pending target and removes that same target from the notebook,
\* whatever tab is selected by then: never another, currently selected document.
C1_SubmitRemovesTarget ==
    [][(SubmitSucceeds /\ pending_delete.tab > 0) =>
          /\ disk' = disk \ {tabs[pending_delete.tab].filename}
          /\ tabs' = RemoveAt(tabs, pending_delete.tab)]_vars

\* C2: when removing the backing file fails at submit, the gate stays in
\* Collecting with its lines and target, and the notebook keeps the target.
C2_FailedDeleteStaysCollecting ==
    [][(op' = "submit" /\ raised' = "FileNotFoundError") =>
          /\ Collecting'
          /\ e' = e
          /\ pending_delete' = pending_delete
          /\ tabs' = tabs]_vars

\* C3: a submit whose lines are not valid is rejected (no file deleted, no
\* tab removed, the gate still Collecting), and Completed is entered only by a
\* submit whose lines are valid when it runs.
C3_InvalidSubmitRejected ==
    [][(op' = "submit" /\ ~valid(e)) =>
          /\ Collecting'
          /\ disk' = disk
          /\ tabs' = tabs]_vars

\* C4: at most one timer tick is scheduled at any time.
C4_OneTickScheduled == Cardinality(after) <= 1

\* C5: after reset_timer no tick is scheduled, remaining is 0 and the label
\* is blank.
C5_ResetStopsTimer ==
    op = "reset_timer" => (after = {} /\ remaining = 0 /\ timer_label = <<>>)

\* C6: after set_timer with nothing scheduled before and no timer command
\* since, the scheduled callbacks run exactly total times: before the last one
\* a tick is scheduled and nothing has finished; after the last one remaining
\* is 0, "Timer finished" was shown exactly once and nothing is scheduled.
C6_ExactTicks ==
    run.clean =>
        /\ run.ticks <= run.total
        /\ run.ticks < run.total =>
              /\ Cardinality(after) = 1
              /\ run.finished = 0
              /\ remaining = run.total - 1 - run.ticks
        /\ run.ticks = run.total =>
              /\ remaining = 0
              /\ after = {}
              /\ run.finished = 1
              /\ status = "Timer finished"

\* C6, reached: the last of the 60 callbacks of a one-minute timer has run.
C6_Witness ==
    /\ run.clean
    /\ run.total = SecondsPerMinute
    /\ run.ticks = run.total
    /\ op = "after_tick"

\* C7: while the application runs the notebook holds at least one document and
\* the selection is one of them.
C7_NeverEmpty == Running => (Len(tabs) >= 1 /\ sel \in 1..Len(tabs))

\* C8: the pending target is unset after cancel, after a successful submit and
\* after dismiss.
C8_PendingClearedOnExit ==
    (op \in {"cancel", "dismiss"} \/ (op = "submit" /\ Completed)) => ~pending_delete.set

\* C9: start_delete on a titled document with an empty haiku bank does not
\* raise and leaves no pending target without a visible gate.
C9_EmptyBankRequest ==
    (op = "start_delete" /\ sel > 0 /\ tabs[sel].filename # None /\ Len(haiku_lines) = 0) =>
        /\ raised = "none"
        /\ pending_delete.set => Collecting

\* C10: startup on a missing, unparseable or not-an-array-of-strings state
\* file does not raise and ends with exactly one blank Untitled document.
C10_BadSessionLoadsBlank ==
    (phase # "boot" /\ ~WellFormed(stateFile)) =>
        /\ raised = "none"
        /\ Ready
        /\ Len(tabs) = 1
        /\ tabs[1].filename = None
        /\ tabs[1].text = <<>>

\* C11: a request-delete while the gate is Collecting or Completed is ignored:
\* the gate state, the entered lines, the pending target and the haiku cursor
\* stay as they are.
C11_RequestOnlyInIdle ==
    [][(op' = "start_delete" /\ ~Idle) =>
          UNCHANGED <<frame, message, e, ok, pending_delete, haiku_index>>]_vars

\* C13: a haiku file of n non-blank lines loads as floor(n/3) haikus of
\* exactly three lines each.
C13_BankDropsPartialGroup ==
    (Running /\ haikuFile.exists) =>
        /\ Len(haiku_lines) = haikuFile.n \div 3
        /\ \A g \in DOMAIN haiku_lines : Len(haiku_lines[g]) = 3

\* A step of start_delete on a titled document with a non-empty bank.
AcceptedRequest ==
    /\ op' = "start_delete"
    /\ sel > 0
    /\ tabs[sel].filename # None
    /\ Len(haiku_lines) > 0

\* C16: each accepted request shows the haiku at the cursor and advances the
\* cursor by one modulo the bank's count, the cursor being a valid index
\* before and after; so 2*count requests show the bank in order, twice.
C16_Wraparound ==
    [][AcceptedRequest =>
          /\ raised' = "none"
          /\ haiku_index \in 0..(Len(haiku_lines) - 1)
          /\ message' = [kind |-> "prompt", text |-> haiku_lines[haiku_index + 1]]
          /\ haiku_index' = (haiku_index + 1) % Len(haiku_lines)
          /\ haiku_index' \in 0..(Len(haiku_lines) - 1)
          /\ haiku_lines' = haiku_lines]_vars

\* C16, reached: a request showed the last haiku of a bank of at least two and
\* the cursor wrapped to the first.
C16_Witness ==
    /\ op = "start_delete"
    /\ raised = "none"
    /\ Len(haiku_lines) >= 2
    /\ haiku_index = 0
    /\ message = [kind |-> "prompt", text |-> haiku_lines[Len(haiku_lines)]]

\* C17: request-delete on a selected document without a filename changes
\* neither the gate, nor the pending target, nor the cursor, nor the notebook.
C17_UntitledRequestIsNoop ==
    [][(op' = "start_delete" /\ sel > 0 /\ tabs[sel].filename = None) =>
          /\ raised' = "none"
          /\ UNCHANGED <<frame, message, e, ok, pending_delete, haiku_index, tabs, sel, disk>>]_vars

\* C17, reached: the request came on an untitled document while the gate was
\* Collecting for another target.
C17_Witness ==
    /\ op = "start_delete"
    /\ sel > 0
    /\ tabs[sel].filename = None
    /\ Collecting
    /\ pending_delete.set
    /\ pending_delete.tab # sel

\* C18: whatever the interleaving of set_timer, reset_timer and tick callbacks,
\* remaining is never negative, and every "Timer finished" status was set by a
\* tick that read remaining = 0.
C18_RemainingNeverNegative ==
    /\ remaining >= 0
    /\ \A r \in emitted : r = 0
    /\ (status = "Timer finished") => (0 \in emitted)

\* C18, reached: two chains overlapped and a tick of one read 0 and reported
\* while a callback of the other was still scheduled.
C18_Witness ==
    /\ op = "after_tick"
    /\ status = "Timer finished"
    /\ emitted = {0}
    /\ remaining = 0
    /\ ~run.clean
    /\ after # {}

\* The whitespace-delimited non-empty tokens of a line, counted where they begin.
Tokens(line) ==
    Cardinality({i \in 1..Len(line) : line[i] # " " /\ (i = 1 \/ line[i - 1] = " ")})

\* C15: the submit-enabled signal that _validate computes is
\* Tokens(line1) in 3..5 and Tokens(line2) in 4..7 and Tokens(line3) in 3..5,
\* and a line edit leaves the gate in Collecting with its target and prompt.
C15_SignalIsWordRanges ==
    [][/\ (op' = "validate") =>
            (ok' = (Tokens(e[1]) \in 3..5 /\ Tokens(e[2]) \in 4..7 /\ Tokens(e[3]) \in 3..5))
       /\ (op' = "entry_edit") =>
            (Collecting /\ UNCHANGED <<frame, pending_delete, haiku_index, message>>)]_vars

\* C15, reached: the signal was computed as enabled on lines at the ends of
\* the ranges, with leading, doubled and trailing blanks.
C15_Witness ==
    /\ op = "validate"
    /\ Collecting
    /\ ok
    /\ e = <<Spaced(3), LineOf(7), Long(5)>>

\* C19: whenever a document is active, the application's Hemingway flag (the
\* one the status line reported) equals the flag of the active document (the
\* one _block_keys reads).
C19_AppFlagIsActiveFlag ==
    (Running /\ sel > 0) => (hemingway = tabs[sel].hemingway)

\* C12: once the queued events are served, a document whose text a key has
\* changed since it was loaded or saved is dirty (modified flag or "*" on its
\* tab), and a document loaded or saved with no change since is not.
C12_DirtyTracksEdits ==
    Ready => \A i \in DOMAIN tabs :
                tabs[i].edited <=> (tabs[i].modified \/ tabs[i].star)

\* C20: a save of a document that was opened or restored from a file and not
\* edited since writes to that file the content that was read from it.
C20_OpenSaveRoundTrip ==
    [][(op' = "save" /\ raised' = "none" /\ sel > 0 /\ tabs[sel].filename # None
           /\ tabs[sel].loaded /\ ~tabs[sel].edited) =>
          contents'[tabs[sel].filename] = tabs[sel].read]_vars

\* The filenames of the tabs t, in tab order.
FilenamesOf(t) == [i \in DOMAIN t |-> t[i].filename]
IsName(f) == f # None

\* C14: the state file on_close wrote holds exactly the filenames of the open
\* documents that have one, in tab order, the untitled ones left out.
C14_SessionRecord ==
    (op = "on_close") => (stateFile = json_dump(SelectSeq(FilenamesOf(tabs), IsName)))

\* C14, reached: the window was closed on an untitled tab followed by one saved
\* under a new name, after the file first opened had been deleted.
C14_Witness ==
    /\ op = "on_close"
    /\ Len(tabs) = 2
    /\ tabs[1].filename = None
    /\ tabs[2].filename = "b.md"
    /\ "a.md" \notin disk
    /\ stateFile = json_dump(<<"b.md">>)

====
